---- MODULE Spec2Model ----
(***************************************************************************)
(* A model of pylibrespot_java: the LibrespotJavaAPI command client and    *)
(* its websocket event listener (start_websocket_handler).                 *)
(*                                                                         *)
(* The collaborators (the aiohttp session, the remote librespot-java       *)
(* server, the caller's update_callback, asyncio.sleep) are the            *)
(* environment: every outcome they can produce is a nondeterministic       *)
(* choice.  `trace' is the list of calls the listener made on them and of  *)
(* the outcomes they produced, in order, as a recording test double would  *)
(* see them.                                                               *)
(***************************************************************************)
EXTENDS Integers, Sequences, FiniteSets, TLC

(***************************************************************************)
(* Bounds of the model.                                                    *)
(***************************************************************************)
\* how many times the environment lets the listener go round its loop
MaxReconnects == 2
\* how many frames the server sends over the whole run
MaxMsgs == 2
\* how many command calls the callers make over the whole run
MaxCalls == 3

(***************************************************************************)
(* Input sets.                                                             *)
(***************************************************************************)
Hosts == {"192.168.1.20"}
Ports == {24879}
Sessions == {"websession"}
Intervals == {5, 30}

\* exception classes as the except clause of the listener tells them apart
TimeoutError == "asyncio.TimeoutError"
ClientError == "aiohttp.ClientError"
ValueError == "ValueError"
ExcKinds == {TimeoutError, ClientError, ValueError}

\* text frames the server may send on the event stream
RawMsgs == {"{\"event\":\"trackChanged\"}", "{\"event\":\"playbackPaused\"}", "trackChanged"}

VARIABLES
    ip_address,     \* self._ip_address
    api_port,       \* self._api_port
    websession,     \* self._websession
    ctor,           \* the arguments __init__ was called with
    lpc,            \* where start_websocket_handler is suspended
    reconnect_time, \* its websocket_reconnect_time argument
    lexc,           \* the exception it terminated with, or "none"
    trace,          \* calls on the collaborators and their outcomes
    logger,         \* records written to _LOGGER
    task,           \* the callers' command coroutines
    ncalls,         \* command calls started so far
    posted          \* websession.post calls made so far

listenerVars == <<lpc, reconnect_time, lexc, trace, logger>>
clientVars == <<task, ncalls, posted>>
selfVars == <<ip_address, api_port, websession, ctor>>
vars == <<ip_address, api_port, websession, ctor, lpc, reconnect_time, lexc,
          trace, logger, task, ncalls, posted>>

(***************************************************************************)
(* Pure helpers.                                                           *)
(***************************************************************************)
\* f"http://{self._ip_address}:{self._api_port}/{endpoint}"
Url(endpoint) ==
    <<"http://", ip_address, ":", api_port, "/">> \o endpoint

\* json.loads on a text: the decoded value, or a decoding failure
JsonLoads(text) ==
    CASE text = "{\"event\":\"trackChanged\"}" ->
            [ok |-> TRUE, value |-> [event |-> "trackChanged"]]
      [] text = "{\"event\":\"playbackPaused\"}" ->
            [ok |-> TRUE, value |-> [event |-> "playbackPaused"]]
      [] text = "{\"current\":\"spotify:track:abc123\"}" ->
            [ok |-> TRUE, value |-> [current |-> "spotify:track:abc123"]]
      [] text = "{}" ->
            [ok |-> TRUE, value |-> [empty |-> TRUE]]
      [] OTHER -> [ok |-> FALSE, value |-> [error |-> ValueError]]

\* the classes named by `except (asyncio.TimeoutError, aiohttp.ClientError)'
Caught == {TimeoutError, ClientError}

CountOp(tr, op) == Cardinality({i \in DOMAIN tr : tr[i].op = op})

(***************************************************************************)
(* Initial state: a constructed client, nothing started.                   *)
(***************************************************************************)
TaskIds == {"t1", "t2"}
IdleTask == [pc |-> "idle"]

Init ==
    /\ ip_address \in Hosts
    /\ api_port \in Ports
    /\ websession \in Sessions
    /\ ctor = [websession |-> websession, ip_address |-> ip_address,
               api_port |-> api_port]
    /\ lpc = "idle"
    /\ reconnect_time = 0
    /\ lexc = "none"
    /\ trace = <<>>
    /\ logger = <<>>
    /\ task = [t \in TaskIds |-> IdleTask]
    /\ ncalls = 0
    /\ posted = 0

(***************************************************************************)
(* The event listener, start_websocket_handler.                            *)
(***************************************************************************)
EventsUrl == Url(<<"events">>)

\* the top of `while True': self._websession.ws_connect(url) is entered
EnterLoop(tr) == Append(tr, [op |-> "ws_connect", url |-> EventsUrl,
                             session |-> websession])

\* variant: the delay grows with every reconnect
ExceptBackoff(e, tr, inStream) ==
    LET tr1 == IF inStream THEN Append(tr, [op |-> "ws_exit"]) ELSE tr IN
    IF e \in Caught
    THEN /\ lpc' = "sleep_except"
         /\ lexc' = lexc
         /\ trace' = Append(tr1, [op |-> "sleep",
                 secs |-> reconnect_time * (1 + CountOp(tr, "sleep"))])
         /\ logger' = Append(logger, [level |-> "error", text |-> "Can not connect to WebSocket"])
    ELSE /\ lpc' = "raised"
         /\ lexc' = e
         /\ trace' = tr1
         /\ logger' = logger

\* variant: a catch-all except clause
ExceptAll(e, tr, inStream) ==
    LET tr1 == IF inStream THEN Append(tr, [op |-> "ws_exit"]) ELSE tr IN
    /\ lpc' = "sleep_except"
    /\ lexc' = lexc
    /\ trace' = Append(tr1, [op |-> "sleep", secs |-> reconnect_time])
    /\ logger' = Append(logger, [level |-> "error", text |-> "Can not connect to WebSocket"])

\* variant: the except clause names the timeout only
ExceptTimeoutOnly(e, tr, inStream) ==
    LET tr1 == IF inStream THEN Append(tr, [op |-> "ws_exit"]) ELSE tr IN
    IF e = TimeoutError
    THEN /\ lpc' = "sleep_except"
         /\ lexc' = lexc
         /\ trace' = Append(tr1, [op |-> "sleep", secs |-> reconnect_time])
         /\ logger' = Append(logger, [level |-> "error", text |-> "Can not connect to WebSocket"])
    ELSE /\ lpc' = "raised"
         /\ lexc' = e
         /\ trace' = tr1
         /\ logger' = logger

\* An exception e surfaces inside the try block at trace tr (inStream: the
\* `async with' block is open and is left first).  The except clause takes
\* the timeout and client errors, logs and sleeps; anything else propagates.
Except(e, tr, inStream) ==
    LET tr1 == IF inStream THEN Append(tr, [op |-> "ws_exit"]) ELSE tr IN
    IF e \in Caught
    THEN /\ lpc' = "sleep_except"
         /\ lexc' = lexc
         /\ trace' = Append(tr1, [op |-> "sleep", secs |-> reconnect_time])
         /\ logger' = Append(logger, [level |-> "error", text |-> "Can not connect to WebSocket"])
    ELSE /\ lpc' = "raised"
         /\ lexc' = e
         /\ trace' = tr1
         /\ logger' = logger

\* the caller starts the listener: it logs and enters the loop
start_websocket_handler(T) ==
    /\ lpc = "idle"
    /\ lpc' = "ws_connect"
    /\ reconnect_time' = T
    /\ logger' = Append(logger, [level |-> "debug", text |-> "Starting websocket handler"])
    /\ trace' = EnterLoop(trace)
    /\ UNCHANGED <<lexc, selfVars, clientVars>>

\* ws_connect returns a websocket: the `async for' waits for a frame
ConnectOk ==
    /\ lpc = "ws_connect"
    /\ lpc' = "receive"
    /\ trace' = Append(trace, [op |-> "connected"])
    /\ UNCHANGED <<reconnect_time, lexc, logger, selfVars, clientVars>>

\* ws_connect raises
ConnectRaise(e) ==
    /\ lpc = "ws_connect"
    /\ e \in Caught => CountOp(trace, "sleep") < MaxReconnects
    /\ Except(e, Append(trace, [op |-> "raise", exc |-> e, at |-> "ws_connect"]), FALSE)
    /\ UNCHANGED <<reconnect_time, selfVars, clientVars>>

\* a frame arrives: msg.json(), the debug record, then update_callback(json)
\* is awaited; a frame that does not decode raises out of the loop body
Receive(raw) ==
    /\ lpc = "receive"
    /\ CountOp(trace, "message") < MaxMsgs
    /\ LET tr == Append(trace, [op |-> "message", data |-> raw])
           json == JsonLoads(raw) IN
       IF json.ok
       THEN /\ lpc' = "update_callback"
            /\ trace' = Append(tr, [op |-> "update_callback", json |-> json.value])
            /\ logger' = Append(logger, [level |-> "debug", text |-> "Message received"])
            /\ lexc' = lexc
       ELSE Except(json.value.error,
                   Append(tr, [op |-> "raise", exc |-> json.value.error, at |-> "json"]),
                   TRUE)
    /\ UNCHANGED <<reconnect_time, selfVars, clientVars>>

\* the caller's handler returns: the `async for' waits for the next frame
CallbackReturn ==
    /\ lpc = "update_callback"
    /\ lpc' = "receive"
    /\ trace' = Append(trace, [op |-> "callback_return"])
    /\ UNCHANGED <<reconnect_time, lexc, logger, selfVars, clientVars>>

\* variant: the handler is awaited outside the try block
CallbackRaiseFatal(e) ==
    /\ lpc = "update_callback"
    /\ lpc' = "raised"
    /\ lexc' = e
    /\ trace' = trace \o <<[op |-> "raise", exc |-> e, at |-> "update_callback"],
                           [op |-> "ws_exit"]>>
    /\ UNCHANGED <<reconnect_time, logger, selfVars, clientVars>>

\* the caller's handler raises
CallbackRaise(e) ==
    /\ lpc = "update_callback"
    /\ e \in Caught => CountOp(trace, "sleep") < MaxReconnects
    /\ Except(e, Append(trace, [op |-> "raise", exc |-> e, at |-> "update_callback"]), TRUE)
    /\ UNCHANGED <<reconnect_time, selfVars, clientVars>>

\* variant: a clean disconnect reconnects at once
ReceiveCloseNoSleep ==
    /\ lpc = "receive"
    /\ CountOp(trace, "sleep") < MaxReconnects
    /\ lpc' = "ws_connect"
    /\ trace' = EnterLoop(trace \o <<[op |-> "closed"], [op |-> "ws_exit"]>>)
    /\ logger' = Append(logger, [level |-> "debug", text |-> "WebSocket disconnected"])
    /\ UNCHANGED <<reconnect_time, lexc, selfVars, clientVars>>

\* the peer closes the stream: the `async for' ends, the block is left, the
\* disconnect is logged and the sleep inside the try block is awaited
ReceiveClose ==
    /\ lpc = "receive"
    /\ CountOp(trace, "sleep") < MaxReconnects
    /\ lpc' = "sleep_closed"
    /\ trace' = trace \o <<[op |-> "closed"], [op |-> "ws_exit"],
                           [op |-> "sleep", secs |-> reconnect_time]>>
    /\ logger' = Append(logger, [level |-> "debug", text |-> "WebSocket disconnected"])
    /\ UNCHANGED <<reconnect_time, lexc, selfVars, clientVars>>

\* receiving on the open stream raises
ReceiveRaise(e) ==
    /\ lpc = "receive"
    /\ e \in Caught => CountOp(trace, "sleep") < MaxReconnects
    /\ Except(e, Append(trace, [op |-> "raise", exc |-> e, at |-> "receive"]), TRUE)
    /\ UNCHANGED <<reconnect_time, selfVars, clientVars>>

\* the sleep after a clean disconnect is over: next iteration of the loop
SleepClosedReturn ==
    /\ lpc = "sleep_closed"
    /\ lpc' = "ws_connect"
    /\ trace' = EnterLoop(trace)
    /\ UNCHANGED <<reconnect_time, lexc, logger, selfVars, clientVars>>

\* the sleep of the except clause is over: `continue'
SleepExceptReturn ==
    /\ lpc = "sleep_except"
    /\ lpc' = "ws_connect"
    /\ trace' = EnterLoop(trace)
    /\ UNCHANGED <<reconnect_time, lexc, logger, selfVars, clientVars>>

NextListener ==
    \/ \E T \in Intervals : start_websocket_handler(T)
    \/ ConnectOk
    \/ \E e \in ExcKinds : ConnectRaise(e)
    \/ \E raw \in RawMsgs : Receive(raw)
    \/ CallbackReturn
    \/ \E e \in ExcKinds : CallbackRaise(e)
    \/ ReceiveClose
    \/ \E e \in ExcKinds : ReceiveRaise(e)
    \/ SleepClosedReturn
    \/ SleepExceptReturn

(***************************************************************************)
(* The command client.  A caller task t awaits one command coroutine at a  *)
(* time; task[t] holds the coroutine's position and locals, and beside     *)
(* them what the environment did for this call: `req' is the request as    *)
(* websession.post received it, `answer' what the server put on the wire   *)
(* for that request, `body' the body the server sent.                      *)
(***************************************************************************)
Uris == {"spotify:track:abc123"}
Plays == BOOLEAN
Volumes == {-1, 50, 70000}
Queries == {"daft punk"}
Scopes == {"playlist-read"}
Statuses == {200, 204, 404, 500, 503}
Bodies == {"{\"current\":\"spotify:track:abc123\"}", "{}", "", "<html>"}

SoftFailures == {204, 500, 503}
WriteCmds == {"player_load", "player_pause", "player_resume", "player_next",
              "player_prev", "player_set_volume", "player_volume_up",
              "player_volume_down"}
ReadCmds == {"player_current", "metadata", "search", "token"}
NoData == [None |-> TRUE]
NoAnswer == [kind |-> "none"]

\* Helper for logger debug strings.
_debug_string(string_base, status) ==
    IF status = 204 THEN string_base \o " No active session"
    ELSE IF status = 500 THEN string_base \o " Invalid session"
    ELSE IF status = 503 THEN string_base \o " Session is reconnecting"
    ELSE ""

\* resp.json(content_type=None): no body gives None, otherwise json.loads
RespJson(body) ==
    IF body = "" THEN [ok |-> TRUE, value |-> [None |-> TRUE]]
    ELSE JsonLoads(body)

\* post_request from a command of task t: the debug record, then
\* self._websession.post(url=url, data=data) is awaited
post_request(t, cmd, args, string_base, endpoint, data) ==
    /\ task[t].pc = "idle"
    /\ ncalls < MaxCalls
    /\ ncalls' = ncalls + 1
    /\ posted' = posted + 1
    /\ task' = [task EXCEPT ![t] =
          [pc |-> "post", cmd |-> cmd, args |-> args, seq |-> ncalls + 1,
           string_base |-> string_base,
           req |-> [url |-> Url(endpoint), data |-> data, session |-> websession],
           sent |-> 1,
           answer |-> NoAnswer,
           decodes |-> 0,
           log |-> <<[level |-> "debug", text |-> "POST request to %s with payload %s.",
                      url |-> Url(endpoint), data |-> data]>>]]
    /\ UNCHANGED <<selfVars, listenerVars>>

player_load(t, uri, play) ==
    post_request(t, "player_load", [uri |-> uri, play |-> play],
                 "Unable to load track.",
                 <<"player/load">>, [uri |-> uri, play |-> play])

player_pause(t) ==
    post_request(t, "player_pause", NoData, "Unable to pause player.",
                 <<"player/pause">>, NoData)

player_resume(t) ==
    post_request(t, "player_resume", NoData, "Unable to resume player.",
                 <<"player/resume">>, NoData)

player_next(t) ==
    post_request(t, "player_next", NoData, "Unable to skip to the next track.",
                 <<"player/next">>, NoData)

player_prev(t) ==
    post_request(t, "player_prev", NoData, "Unable to skip to the previous track.",
                 <<"player/prev">>, NoData)

\* variant: the volume is clamped to the documented range
Clamp(volume) == IF volume < 0 THEN 0 ELSE IF volume > 65536 THEN 65536 ELSE volume

player_set_volume_clamped(t, volume) ==
    post_request(t, "player_set_volume", [volume |-> volume],
                 "Unable to set the volume.",
                 <<"player/set-volume">>, [volume |-> Clamp(volume)])

player_set_volume(t, volume) ==
    post_request(t, "player_set_volume", [volume |-> volume],
                 "Unable to set the volume.",
                 <<"player/set-volume">>, [volume |-> volume])

player_volume_up(t) ==
    post_request(t, "player_volume_up", NoData, "Unable to turn the volume up.",
                 <<"player/volume-up">>, NoData)

player_volume_down(t) ==
    post_request(t, "player_volume_down", NoData, "Unable to turn the volume down.",
                 <<"player/volume-down">>, NoData)

player_current(t) ==
    post_request(t, "player_current", NoData,
                 "Unable to retrieve information about the current track.",
                 <<"player/current">>, NoData)

metadata(t, uri) ==
    post_request(t, "metadata", [uri |-> uri],
                 "Unable to get metadata for " \o uri \o ".",
                 <<"metadata/", uri>>, NoData)

search(t, query) ==
    post_request(t, "search", [query |-> query],
                 "Unable to search for " \o query \o ".",
                 <<"search/", query>>, NoData)

token(t, scope) ==
    post_request(t, "token", [scope |-> scope],
                 "Unable to get token for " \o scope \o ".",
                 <<"token/", scope>>, NoData)

\* the server answers the request of task t with a status
ServerRespond(t, status) ==
    /\ task[t].pc = "post"
    /\ task[t].answer.kind = "none"
    /\ task' = [task EXCEPT ![t].answer = [kind |-> "response", status |-> status]]
    /\ UNCHANGED <<ncalls, posted, selfVars, listenerVars>>

\* the request of task t fails in the transport
ServerFail(t, e) ==
    /\ task[t].pc = "post"
    /\ task[t].answer.kind = "none"
    /\ task' = [task EXCEPT ![t].answer = [kind |-> "error", exc |-> e]]
    /\ UNCHANGED <<ncalls, posted, selfVars, listenerVars>>

\* what a command does with the response resp once post_request returned it:
\* the debug record for 204, 500 and 503, then `return resp.status' in the
\* write commands and `await resp.json(content_type=None)' in the read ones
AfterPost(c, resp) ==
    LET log1 == IF resp.status \in SoftFailures
                THEN Append(c.log, [level |-> "debug",
                                    text |-> _debug_string(c.string_base, resp.status)])
                ELSE c.log
    IN IF c.cmd \in WriteCmds
       THEN [c EXCEPT !.pc = "returned", !.log = log1] @@
            [resp |-> resp, result |-> resp.status]
       ELSE [c EXCEPT !.pc = "json", !.log = log1, !.decodes = c.decodes + 1] @@
            [resp |-> resp]

\* variant: a response of another call in flight is handed to this one
PostReturnShared(t) ==
    /\ task[t].pc = "post"
    /\ \E u \in TaskIds :
          /\ task[u].pc # "idle"
          /\ task[u].answer.kind = "response"
          /\ task' = [task EXCEPT ![t] = AfterPost(task[t], task[u].answer)]
    /\ UNCHANGED <<ncalls, posted, selfVars, listenerVars>>

\* variant: an error status is turned into an exception
PostReturnRaiseForStatus(t) ==
    /\ task[t].pc = "post"
    /\ task[t].answer.kind = "response"
    /\ task' = [task EXCEPT ![t] =
          IF task[t].answer.status >= 400
          THEN [task[t] EXCEPT !.pc = "raised"] @@ [exc |-> ClientError]
          ELSE AfterPost(task[t], task[t].answer)]
    /\ UNCHANGED <<ncalls, posted, selfVars, listenerVars>>

\* variant: a soft failure returns an empty result without decoding
PostReturnSkipDecode(t) ==
    /\ task[t].pc = "post"
    /\ task[t].answer.kind = "response"
    /\ task' = [task EXCEPT ![t] =
          IF task[t].cmd \in ReadCmds /\ task[t].answer.status \in SoftFailures
          THEN [task[t] EXCEPT !.pc = "returned"] @@
               [resp |-> task[t].answer, body |-> "", result |-> [None |-> TRUE]]
          ELSE AfterPost(task[t], task[t].answer)]
    /\ UNCHANGED <<ncalls, posted, selfVars, listenerVars>>

\* the await of websession.post in task t returns the response to its request
PostReturn(t) ==
    /\ task[t].pc = "post"
    /\ task[t].answer.kind = "response"
    /\ task' = [task EXCEPT ![t] = AfterPost(task[t], task[t].answer)]
    /\ UNCHANGED <<ncalls, posted, selfVars, listenerVars>>

\* variant: a failed request is sent again
PostRaiseRetry(t) ==
    /\ task[t].pc = "post"
    /\ task[t].answer.kind = "error"
    /\ posted' = posted + 1
    /\ task' = [task EXCEPT ![t].answer = NoAnswer, ![t].sent = @ + 1]
    /\ UNCHANGED <<ncalls, selfVars, listenerVars>>

\* the await of websession.post in task t raises: nothing catches it
PostRaise(t) ==
    /\ task[t].pc = "post"
    /\ task[t].answer.kind = "error"
    /\ task' = [task EXCEPT ![t] =
          [task[t] EXCEPT !.pc = "raised"] @@ [exc |-> task[t].answer.exc]]
    /\ UNCHANGED <<ncalls, posted, selfVars, listenerVars>>

\* resp.json of a read command completes on the body the server sent
JsonReturn(t, body) ==
    /\ task[t].pc = "json"
    /\ LET json == RespJson(body) IN
       task' = [task EXCEPT ![t] =
          IF json.ok
          THEN [task[t] EXCEPT !.pc = "returned"] @@
               [body |-> body, result |-> json.value]
          ELSE [task[t] EXCEPT !.pc = "raised"] @@
               [body |-> body, exc |-> json.value.error]]
    /\ UNCHANGED <<ncalls, posted, selfVars, listenerVars>>

\* resp.json of a read command fails while the body is read
JsonRaise(t, e) ==
    /\ task[t].pc = "json"
    /\ task' = [task EXCEPT ![t] = [task[t] EXCEPT !.pc = "raised"] @@ [exc |-> e]]
    /\ UNCHANGED <<ncalls, posted, selfVars, listenerVars>>

\* the caller has the outcome of the call and may make another one
Collect(t) ==
    /\ task[t].pc \in {"returned", "raised"}
    /\ task' = [task EXCEPT ![t] = IdleTask]
    /\ UNCHANGED <<ncalls, posted, selfVars, listenerVars>>

NextClient ==
    \/ \E t \in TaskIds, uri \in Uris, play \in Plays : player_load(t, uri, play)
    \/ \E t \in TaskIds : player_pause(t)
    \/ \E t \in TaskIds : player_resume(t)
    \/ \E t \in TaskIds : player_next(t)
    \/ \E t \in TaskIds : player_prev(t)
    \/ \E t \in TaskIds, volume \in Volumes : player_set_volume(t, volume)
    \/ \E t \in TaskIds : player_volume_up(t)
    \/ \E t \in TaskIds : player_volume_down(t)
    \/ \E t \in TaskIds : player_current(t)
    \/ \E t \in TaskIds, uri \in Uris : metadata(t, uri)
    \/ \E t \in TaskIds, query \in Queries : search(t, query)
    \/ \E t \in TaskIds, scope \in Scopes : token(t, scope)
    \/ \E t \in TaskIds, status \in Statuses : ServerRespond(t, status)
    \/ \E t \in TaskIds, e \in Caught : ServerFail(t, e)
    \/ \E t \in TaskIds : PostReturn(t)
    \/ \E t \in TaskIds : PostRaise(t)
    \/ \E t \in TaskIds, body \in Bodies : JsonReturn(t, body)
    \/ \E t \in TaskIds, e \in Caught : JsonRaise(t, e)
    \/ \E t \in TaskIds : Collect(t)

\* The listener and the commands share only the fields __init__ sets, which
\* nothing assigns afterwards, so each is explored on its own: SpecListener
\* and SpecClient.  Spec is their interleaving.
Next == NextListener \/ NextClient

Spec == Init /\ [][Next]_vars
SpecListener == Init /\ [][NextListener]_vars
SpecClient == Init /\ [][NextClient]_vars

(***************************************************************************)
(* Properties of the event listener.                                       *)
(***************************************************************************)
Last == Len(trace)
IsSleepT(i) == trace[i].op = "sleep" /\ trace[i].secs = reconnect_time
IsRaise(i, where, kinds) ==
    trace[i].op = "raise" /\ trace[i].at \in where /\ trace[i].exc \in kinds
IsMessageOk(ev) == ev.op = "message" /\ JsonLoads(ev.data).ok
IsCallback(ev) == ev.op = "update_callback"
\* the decoded frames in arrival order, and the handler's arguments in call order
Arrived == LET ms == SelectSeq(trace, IsMessageOk)
           IN [i \in 1..Len(ms) |-> JsonLoads(ms[i].data).value]
Delivered == LET cs == SelectSeq(trace, IsCallback)
             IN [i \in 1..Len(cs) |-> cs[i].json]
\* handler invocations begun and not yet finished
InHandler ==
    CountOp(trace, "update_callback") - CountOp(trace, "callback_return")
    - Cardinality({i \in 1..Last : IsRaise(i, {"update_callback"}, ExcKinds)})

\* C1: whenever the listener enters streaming for the first time, at trace
\* position i, the trace before it is N rounds of (connection attempt, failure
\* of the timeout/transport class, one sleep of exactly the configured
\* interval) followed by attempt N+1, for N = the number of failures: N sleeps
\* of the same duration, no handler invocation, and the listener is streaming.
C1_ConstantDelayUntilConnected ==
    \A i \in 1..Last :
        (trace[i].op = "connected" /\ \A j \in 1..(i-1) : trace[j].op # "connected") =>
            LET N == CountOp(SubSeq(trace, 1, i), "raise") IN
            /\ i = 3 * N + 2
            /\ \A k \in 0..(N-1) :
                  /\ trace[3*k+1].op = "ws_connect"
                  /\ IsRaise(3*k+2, {"ws_connect"}, Caught)
                  /\ IsSleepT(3*k+3)
            /\ trace[3*N+1].op = "ws_connect"
            /\ CountOp(SubSeq(trace, 1, i), "ws_connect") = N + 1
            /\ CountOp(SubSeq(trace, 1, i), "sleep") = N
            /\ CountOp(SubSeq(trace, 1, i), "update_callback") = 0
            /\ (i = Last => lpc = "receive")

\* two failed attempts, then the third one connects
C1_Witness ==
    /\ lpc = "receive"
    /\ Last = 8
    /\ trace[8].op = "connected"
    /\ IsRaise(2, {"ws_connect"}, {TimeoutError})
    /\ IsRaise(5, {"ws_connect"}, {ClientError})
    /\ IsSleepT(3) /\ IsSleepT(6)

\* C2: the handler is called with the decoded frames in arrival order, a
\* call never begins before the earlier one has completed (returned or
\* raised), at most one call is in progress, and a clean close
\* by the peer is followed by leaving the stream, one sleep of the configured
\* interval, and only then the next connection attempt.
C2_InOrderThenSleepThenReconnect ==
    /\ Delivered = Arrived
    /\ InHandler \in {0, 1}
    /\ InHandler = 1 <=> lpc = "update_callback"
    /\ \A i \in 1..Last : trace[i].op = "update_callback" =>
            /\ trace[i-1].op = "message"
            /\ JsonLoads(trace[i-1].data).value = trace[i].json
            /\ \A j \in 1..(i-1) : trace[j].op = "update_callback" =>
                    \E k \in (j+1)..(i-1) :
                        \/ trace[k].op = "callback_return"
                        \/ IsRaise(k, {"update_callback"}, ExcKinds)
    /\ \A i \in 1..Last : trace[i].op = "closed" =>
            /\ Last >= i + 2
            /\ trace[i+1].op = "ws_exit"
            /\ IsSleepT(i+2)
            /\ (Last = i + 2 => lpc = "sleep_closed")
            /\ (Last >= i + 3 => trace[i+3].op = "ws_connect")

\* connect, M1, M2, clean close, sleep, new attempt
C2_Witness ==
    /\ Last = 12
    /\ lpc = "ws_connect"
    /\ trace[2].op = "connected"
    /\ trace[3].op = "message" /\ trace[4].op = "update_callback"
    /\ trace[5].op = "callback_return"
    /\ trace[6].op = "message" /\ trace[7].op = "update_callback"
    /\ trace[8].op = "callback_return"
    /\ trace[4].json = [event |-> "trackChanged"]
    /\ trace[7].json = [event |-> "playbackPaused"]
    /\ trace[9].op = "closed"
    /\ IsSleepT(11)
    /\ trace[12].op = "ws_connect"

\* C3: an exception outside the timeout/transport class raised while
\* streaming (by the handler, by decoding a frame or by the receive) ends the
\* listener with
\* that exception: the stream is left and nothing follows, no sleep, no
\* connection attempt, no frame, no handler call.
C3_OtherExceptionsAreFatal ==
    \A i \in 1..Last :
        IsRaise(i, {"json", "update_callback", "receive"}, ExcKinds \ Caught) =>
            /\ lpc = "raised"
            /\ lexc = trace[i].exc
            /\ Last = i + 1
            /\ trace[i+1].op = "ws_exit"

\* the handler raises a ValueError on the second frame of a second stream
C3_Witness ==
    /\ lpc = "raised"
    /\ lexc = ValueError
    /\ Last >= 2
    /\ IsRaise(Last - 1, {"update_callback"}, {ValueError})
    /\ CountOp(trace, "update_callback") = 2
    /\ CountOp(trace, "sleep") = 1

\* C4: a timeout/transport error raised by the receive on an open stream
\* does not end the listener: the stream is left, the listener sleeps the
\* configured interval once and then makes the next connection attempt.
C4_ReceiveErrorReconnects ==
    \A i \in 1..Last :
        IsRaise(i, {"receive"}, Caught) =>
            /\ Last >= i + 2
            /\ trace[i+1].op = "ws_exit"
            /\ IsSleepT(i+2)
            /\ (Last = i + 2 => lpc = "sleep_except" /\ lexc = "none")
            /\ (Last >= i + 3 => trace[i+3].op = "ws_connect")

\* a client error on a stream that was opened after an earlier reconnect and
\* had delivered frames, then the next attempt
C4_Witness ==
    /\ Last >= 4
    /\ lpc = "ws_connect"
    /\ IsRaise(Last - 3, {"receive"}, {ClientError})
    /\ IsSleepT(Last - 1)
    /\ CountOp(trace, "sleep") = 2
    /\ CountOp(trace, "callback_return") = 2
    /\ trace[Last - 4].op = "callback_return"

\* C10: a timeout/transport-class exception raised by the handler is taken
\* by the except clause like a connection failure: the listener goes on, the
\* stream is left, the same error record is logged, the listener sleeps the
\* configured interval and makes the next connection attempt.
C10_HandlerTransportErrorReconnects ==
    \A i \in 1..Last :
        IsRaise(i, {"update_callback"}, Caught) =>
            /\ Last >= i + 2
            /\ trace[i+1].op = "ws_exit"
            /\ IsSleepT(i+2)
            /\ (Last = i + 2 =>
                    /\ lpc = "sleep_except"
                    /\ lexc = "none"
                    /\ logger[Len(logger)].level = "error"
                    /\ logger[Len(logger)].text = "Can not connect to WebSocket")
            /\ (Last >= i + 3 => trace[i+3].op = "ws_connect")

\* the handler raises a timeout on the first frame, and the listener reconnects
C10_Witness ==
    /\ Last = 8
    /\ lpc = "ws_connect"
    /\ trace[4].op = "update_callback"
    /\ IsRaise(5, {"update_callback"}, {TimeoutError})
    /\ IsSleepT(7)
    /\ trace[8].op = "ws_connect"

(***************************************************************************)
(* Properties of the command client.                                       *)
(***************************************************************************)
Active == {t \in TaskIds : task[t].pc # "idle"}
Writes == {t \in Active : task[t].cmd \in WriteCmds}
Reads == {t \in Active : task[t].cmd \in ReadCmds}
Answered(t, kind) == task[t].answer.kind = kind

\* C5: a write command that the server answered with a status S, soft
\* failure or not, returns exactly S and raises nothing; it raises only when
\* the transport failed, and it never waits for a body.
C5_WriteReturnsServerStatus ==
    \A t \in Writes :
        /\ task[t].pc \in {"post", "returned", "raised"}
        /\ task[t].pc = "returned" =>
              /\ Answered(t, "response")
              /\ task[t].answer.status \in Statuses
              /\ task[t].result = task[t].answer.status
        /\ task[t].pc = "raised" => Answered(t, "error")

\* a soft failure and another error status, each returned as it was sent
C5_Witness ==
    /\ task["t1"].pc = "returned" /\ task["t1"].cmd = "player_set_volume"
    /\ task["t1"].answer.status = 503 /\ task["t1"].result = 503
    /\ task["t2"].pc = "returned" /\ task["t2"].cmd = "player_next"
    /\ task["t2"].answer.status = 404 /\ task["t2"].result = 404

\* C6: a read command whose request was answered, whatever the status,
\* decodes the body exactly once; when the decoding succeeds it returns the
\* decoded body, and it raises only when the request failed in the transport
\* (no decoding then), the body could not be read or the body did not decode.
C6_ReadDecodesOnceAndReturnsBody ==
    \A t \in Reads :
        /\ task[t].pc = "post" => task[t].decodes = 0
        /\ task[t].pc = "json" => Answered(t, "response") /\ task[t].decodes = 1
        /\ task[t].pc = "returned" =>
              /\ Answered(t, "response")
              /\ task[t].decodes = 1
              /\ RespJson(task[t].body).ok
              /\ task[t].result = RespJson(task[t].body).value
        /\ task[t].pc = "raised" =>
              \/ Answered(t, "error") /\ task[t].decodes = 0
              \/ /\ Answered(t, "response")
                 /\ task[t].decodes = 1
                 /\ \/ task[t].exc \in Caught
                    \/ task[t].exc = ValueError /\ ~RespJson(task[t].body).ok

\* the body sent with a soft failure is decoded and returned
C6_Witness ==
    /\ task["t1"].pc = "returned" /\ task["t1"].cmd = "player_current"
    /\ task["t1"].answer.status = 500
    /\ task["t1"].body = "{\"current\":\"spotify:track:abc123\"}"
    /\ task["t1"].result = [current |-> "spotify:track:abc123"]
    /\ task["t1"].decodes = 1
    /\ task["t2"].pc = "returned" /\ task["t2"].cmd = "token"
    /\ task["t2"].answer.status = 200 /\ task["t2"].decodes = 1

\* C7: k calls have sent k requests, every call has sent exactly one, a
\* write command that returned has the status sent for its own request, and
\* a call whose request failed in the transport has ended with that failure.
C7_OneRequestPerCall ==
    /\ posted = ncalls
    /\ \A t \in Active :
          /\ task[t].sent = 1
          /\ task[t].seq \in 1..ncalls
          /\ \A u \in Active \ {t} : task[u].seq # task[t].seq
          /\ task[t].pc = "returned" /\ task[t].cmd \in WriteCmds =>
                Answered(t, "response") /\ task[t].result = task[t].answer.status
          /\ Answered(t, "error") /\ task[t].pc # "post" =>
                task[t].pc = "raised" /\ task[t].exc = task[t].answer.exc

\* pause three times: the second returned its own status, the third failed
C7_Witness ==
    /\ ncalls = 3 /\ posted = 3
    /\ task["t1"].pc = "returned" /\ task["t1"].cmd = "player_pause"
    /\ task["t1"].seq = 2 /\ task["t1"].result = 204
    /\ task["t2"].pc = "raised" /\ task["t2"].cmd = "player_pause"
    /\ task["t2"].seq = 3 /\ task["t2"].exc = TimeoutError

\* C8: with calls in flight together, the response a call works on is the
\* one the server sent for its own request, so is the status it returns, and
\* the client's host, port and session are those it was constructed with.
C8_OwnResponseAndFixedTarget ==
    /\ ip_address = ctor.ip_address
    /\ api_port = ctor.api_port
    /\ websession = ctor.websession
    /\ \A t \in Active :
          /\ task[t].req.session = ctor.websession
          /\ task[t].req.url[2] = ctor.ip_address
          /\ task[t].req.url[4] = ctor.api_port
          /\ task[t].pc \in {"json", "returned"} =>
                /\ Answered(t, "response")
                /\ task[t].resp.status = task[t].answer.status
          /\ task[t].pc = "returned" /\ task[t].cmd \in WriteCmds =>
                /\ Answered(t, "response")
                /\ task[t].result = task[t].answer.status

\* the later call has returned its status while the response to the earlier
\* one, a different status, waits to be picked up
C8_Witness ==
    /\ task["t1"].pc = "post" /\ task["t1"].seq = 1
    /\ Answered("t1", "response") /\ task["t1"].answer.status = 200
    /\ task["t2"].pc = "returned" /\ task["t2"].seq = 2
    /\ task["t2"].cmd \in WriteCmds /\ task["t2"].result = 503

\* C9: player_set_volume(v) posts {volume: v} to player/set-volume for every
\* v it is called with and player_load(uri, play) posts {uri: uri, play: play}
\* to player/load; what they return is the status the server sent.
C9_ArgumentsSentUnmodified ==
    \A t \in Active :
        /\ task[t].cmd = "player_set_volume" =>
              /\ task[t].req.url = Url(<<"player/set-volume">>)
              /\ task[t].req.data = [volume |-> task[t].args.volume]
        /\ task[t].cmd = "player_load" =>
              /\ task[t].req.url = Url(<<"player/load">>)
              /\ task[t].req.data = [uri |-> task[t].args.uri, play |-> task[t].args.play]
        /\ task[t].cmd \in {"player_set_volume", "player_load"}
              /\ task[t].pc = "returned" =>
              /\ Answered(t, "response")
              /\ task[t].result = task[t].answer.status

\* set_volume(70000) and load("spotify:track:abc123", true), both answered 200
C9_Witness ==
    /\ task["t1"].pc = "returned" /\ task["t1"].cmd = "player_set_volume"
    /\ task["t1"].args.volume = 70000 /\ task["t1"].req.data.volume = 70000
    /\ task["t1"].result = 200
    /\ task["t2"].pc = "returned" /\ task["t2"].cmd = "player_load"
    /\ task["t2"].req.data = [uri |-> "spotify:track:abc123", play |-> TRUE]
    /\ task["t2"].result = 200

====
